---- MODULE Spec2Model ----
(***************************************************************************)
(* Model of msc.py: the MSC packet codec (BuildPkt / Parse), the object    *)
(* registry (objDict / objList, AddObj / DelObj) and the terminal display  *)
(* (DispTerm) that the registry notifies.                                  *)
(*                                                                         *)
(* The program is Python 2 (a packet is a str, read with ord()).  A str    *)
(* is modelled as the sequence of its character codes 0..255.  An object   *)
(* key is the two-character slice pkt[2:4] = <<instance id, module id>>.   *)
(*                                                                         *)
(* TLC integers are 32-bit signed, so a Python integer that goes through   *)
(* struct.pack / struct.unpack is carried as its two 16-bit halves         *)
(* [hi, lo], standing for hi * 2^16 + lo.                                  *)
(***************************************************************************)
EXTENDS Integers, Sequences, FiniteSets, TLC

VARIABLES msc, calls, out, report, op, ret, repeats, addOrder, scene,
          built, parsed, bannerCalls, listed

vars == <<msc, calls, out, report, op, ret, repeats, addOrder, scene,
          built, parsed, bannerCalls, listed>>

(***************************************************************************)
(* Program constants                                                       *)
(***************************************************************************)
MAX_NAME_LEN == 10
WIDTH == 6

MSC_COLOR_NONE == 0
MSC_COLOR_RED == 1
MSC_COLOR_GRN == 2
MSC_COLOR_YEL == 3
MSC_COLOR_BLU == 4
MSC_COLOR_MAG == 5
MSC_COLOR_CYN == 6
MSC_COLOR_WHT == 7

HDR_TYPE_MSG == 0
HDR_TYPE_EVT == 1
HDR_TYPE_STA == 2
HDR_TYPE_TP == 3
HDR_TYPE_DES == 4
HDR_TYPE_ACK == 5

HDR_PRI_SOS == 1
HDR_PRI_SEQ == 2
HDR_PRI_ALT == 4

HDR_OPC_SHF == 0
HDR_OPC_LEN == 5
HDR_OPC_MSK == (2 ^ HDR_OPC_LEN) - 1
HDR_PRI_SHF == HDR_OPC_LEN
HDR_PRI_LEN == 3
HDR_PRI_MSK == (2 ^ HDR_PRI_LEN) - 1

(***************************************************************************)
(* Bounds of the model                                                     *)
(***************************************************************************)
\* largest linesPerPage a DispTerm is constructed with
MaxLinesPerPage == 2
\* longest keyList handed to AddObj by a direct caller
MaxKeyListLen == 1
\* most Banner calls a direct caller makes on one display
MaxBannerCalls == 5
\* most life lines a direct caller declares with SetObjList
MaxObjCnt == 4

(***************************************************************************)
(* Generic helpers                                                         *)
(***************************************************************************)
Min(a, b) == IF a < b THEN a ELSE b

Range(s) == {s[i] : i \in 1..Len(s)}

\* Python slice s[a:b] of a str, 0 <= a <= b
Slice(s, a, b) == SubSeq(s, a + 1, Min(b, Len(s)))

\* Python slice s[a:] of a str
SliceFrom(s, a) == SubSeq(s, a + 1, Len(s))

(***************************************************************************)
(* Text formatting ("%x", "%04x", "%d", str.center)                        *)
(***************************************************************************)
HexDigits == <<"0", "1", "2", "3", "4", "5", "6", "7",
               "8", "9", "a", "b", "c", "d", "e", "f">>

DecDigits == <<"0", "1", "2", "3", "4", "5", "6", "7", "8", "9">>

RECURSIVE Hex(_)
\* "%x" % n
Hex(n) == IF n < 16 THEN HexDigits[n + 1]
          ELSE Hex(n \div 16) \o HexDigits[(n % 16) + 1]

RECURSIVE Dec(_)
\* "%d" % n
Dec(n) == IF n < 10 THEN DecDigits[n + 1]
          ELSE Dec(n \div 10) \o DecDigits[(n % 10) + 1]

RECURSIVE Repeat(_, _)
\* s * n
Repeat(s, n) == IF n <= 0 THEN "" ELSE s \o Repeat(s, n - 1)

\* "%04x" % n
Hex04(n) == Repeat("0", 4 - Len(Hex(n))) \o Hex(n)

\* s.center(width): the odd spare blank goes to the left when width is odd
Center(s, width) ==
    IF Len(s) >= width THEN s
    ELSE LET marg == width - Len(s)
             left == (marg \div 2) + (IF marg % 2 = 1 /\ width % 2 = 1 THEN 1 ELSE 0)
         IN  Repeat(" ", left) \o s \o Repeat(" ", marg - left)

\* len(DispTerm.TILES["CEN"])
TileWidth == WIDTH + 3 + WIDTH

DefaultMessage(msg) == "Unknown Message(0x" \o Hex04(msg) \o ")"

(***************************************************************************)
(* struct.pack / struct.unpack, little-endian                              *)
(***************************************************************************)
U32(hi, lo) == [hi |-> hi, lo |-> lo]

\* struct.pack("<H", v) for a representable v (0 <= v <= 0xFFFF)
PackHBigEndian(v) == <<v.lo \div 256, v.lo % 256>>

PackH(v) == <<v.lo % 256, v.lo \div 256>>

\* struct.pack("<L", v) for 0 <= v <= 0xFFFFFFFF
PackL(v) == <<v.lo % 256, v.lo \div 256, v.hi % 256, v.hi \div 256>>

\* struct.unpack("<H", b)[0], b of length 2
UnpackH(b) == U32(0, b[1] + 256 * b[2])

\* struct.unpack("<L", b)[0], b of length 4
UnpackL(b) == U32(b[3] + 256 * b[4], b[1] + 256 * b[2])

(***************************************************************************)
(* MSC.BuildPkt                                                            *)
(***************************************************************************)
\* (MSC.HDR_OPC_MSK & ucOpc) << HDR_OPC_SHF | (MSC.HDR_PRI_MSK & ucPri) << HDR_PRI_SHF
BuildHdr(ucPri, ucOpc) ==
    (ucOpc % (HDR_OPC_MSK + 1)) * (2 ^ HDR_OPC_SHF)
    + (ucPri % (HDR_PRI_MSK + 1)) * (2 ^ HDR_PRI_SHF)

BuildBody(ucOpc, msgId, srcMod, srcId, dstMod, dstId) ==
    CASE ucOpc = HDR_TYPE_MSG -> <<srcId, srcMod, dstId, dstMod>> \o PackH(msgId)
      [] ucOpc = HDR_TYPE_EVT -> <<srcId, srcMod>> \o PackH(msgId)
      [] ucOpc = HDR_TYPE_STA -> <<srcId, srcMod>> \o PackH(msgId)
      [] ucOpc = HDR_TYPE_TP  -> <<srcId, srcMod>> \o PackL(msgId)
      [] ucOpc = HDR_TYPE_DES -> <<srcId, srcMod>>

\* pkt = chr(hdr) + chr(len(body)) + str(body)
BuildPkt(ucPri, ucOpc, msgId, srcMod, srcId, dstMod, dstId) ==
    LET body == BuildBody(ucOpc, msgId, srcMod, srcId, dstMod, dstId)
    IN  <<BuildHdr(ucPri, ucOpc), Len(body)>> \o body

(***************************************************************************)
(* The decoding part of MSC.Parse                                          *)
(***************************************************************************)
\* a bug that masks the priority without shifting the header first
HdrPriNoShift(hdr) == hdr % (HDR_PRI_MSK + 1)

\* ucPri = (hdr >> HDR_PRI_SHF) & HDR_PRI_MSK
HdrPri(hdr) == (hdr \div (2 ^ HDR_PRI_SHF)) % (HDR_PRI_MSK + 1)

\* ucOpc = hdr & HDR_OPC_MSK
HdrOpc(hdr) == hdr % (HDR_OPC_MSK + 1)

\* a bug that tests the priority bits one by one, so that SOS wins
ColorFirstBit(ucPri) ==
    IF ucPri % 2 = 1 THEN MSC_COLOR_CYN
    ELSE IF (ucPri \div 2) % 2 = 1 THEN MSC_COLOR_BLU
    ELSE IF (ucPri \div 4) % 2 = 1 THEN MSC_COLOR_RED
    ELSE MSC_COLOR_NONE

\* the if / elif chain that sets the color highlight
Color(ucPri) ==
    IF ucPri = HDR_PRI_SOS THEN MSC_COLOR_CYN
    ELSE IF ucPri = HDR_PRI_SEQ THEN MSC_COLOR_BLU
    ELSE IF ucPri = HDR_PRI_ALT THEN MSC_COLOR_RED
    ELSE MSC_COLOR_NONE

NoKey == <<>>
NoValue == U32(0, 0)

\* the fields Parse slices out of a whole packet and unpacks
ParseFields(pkt) ==
    LET hdr == pkt[1]
        ucOpc == HdrOpc(hdr)
    IN  [ucPri |-> HdrPri(hdr),
         ucOpc |-> ucOpc,
         src   |-> Slice(pkt, 2, 4),
         dst   |-> IF ucOpc = HDR_TYPE_MSG THEN Slice(pkt, 4, 6) ELSE NoKey,
         msg   |-> CASE ucOpc = HDR_TYPE_MSG -> UnpackH(Slice(pkt, 6, 8))
                     [] ucOpc = HDR_TYPE_EVT -> UnpackH(Slice(pkt, 4, 6))
                     [] ucOpc = HDR_TYPE_STA -> UnpackH(Slice(pkt, 4, 6))
                     [] ucOpc = HDR_TYPE_TP  -> UnpackL(SliceFrom(pkt, 4))
                     [] OTHER -> NoValue]

(***************************************************************************)
(* DispTerm: the display object held by the MSC (self.disp)                *)
(***************************************************************************)
\* DispTerm.__init__ (prefix is the static default "")
DispInit(linesPerPage) ==
    [kind |-> "DispTerm", lines |-> 0, linesPerPage |-> linesPerPage,
     banner |-> "", objList |-> <<>>, objCnt |-> 0]

\* a banner line written to stdout
BannerLine(d) == [kind |-> "banner", text |-> d.banner]

\* a bug that starts a new page only when the banner is required
BannerKeepsCounting(d, isRequired) ==
    LET emit == (d.lines % d.linesPerPage = 0) \/ isRequired
    IN  [disp |-> [d EXCEPT !.lines = (IF isRequired THEN 0 ELSE d.lines) + 1],
         out  |-> IF emit THEN <<BannerLine(d)>> ELSE <<>>]

\* a bug that counts on from the old value after it has written the banner
BannerNoReset(d, isRequired) ==
    LET emit == (d.lines % d.linesPerPage = 0) \/ isRequired
    IN  [disp |-> [d EXCEPT !.lines = (d.lines % d.linesPerPage) + 1],
         out  |-> IF emit THEN <<BannerLine(d)>> ELSE <<>>]

\* DispTerm.Banner: the display after the call and the lines it wrote
Banner(d, isRequired) ==
    LET emit == (d.lines % d.linesPerPage = 0) \/ isRequired
    IN  [disp |-> [d EXCEPT !.lines = (IF emit THEN 0 ELSE d.lines) + 1],
         out  |-> IF emit THEN <<BannerLine(d)>> ELSE <<>>]

RECURSIVE BannerText(_)
\* Step 1 of SetObjList: the centred "[label]" cells, concatenated
BannerText(objList) ==
    IF objList = <<>> THEN ""
    ELSE Center("[" \o Head(objList) \o "]", TileWidth) \o BannerText(Tail(objList))

\* a bug that leaves the header to the paging rule
SetObjListPaged(d, objList) ==
    Banner([d EXCEPT !.objList = objList,
                     !.objCnt = Len(objList),
                     !.banner = BannerText(objList)], FALSE)

\* a bug that leaves the line counter at 0 after the header
SetObjListNoCount(d, objList) ==
    LET b == Banner([d EXCEPT !.objList = objList,
                              !.objCnt = Len(objList),
                              !.banner = BannerText(objList)], TRUE)
    IN  [disp |-> [b.disp EXCEPT !.lines = 0], out |-> b.out]

\* DispTerm.SetObjList
SetObjList(d, objList) ==
    Banner([d EXCEPT !.objList = objList,
                     !.objCnt = Len(objList),
                     !.banner = BannerText(objList)], TRUE)

(***************************************************************************)
(* DispMscgen: the paging of its entity declaration                        *)
(***************************************************************************)
\* DispMscgen.__init__ (the class keeps no banner text)
MscgenInit(linesPerPage) ==
    [kind |-> "DispMscgen", lines |-> 0, linesPerPage |-> linesPerPage,
     banner |-> "", objList |-> <<>>, objCnt |-> 0]

\* the entity declaration: the proxy of asynchronous events, then the
\* objects as listed
MscgenBannerLine(d) == [kind |-> "entities", names |-> <<"Async">> \o d.objList]

\* DispMscgen.Banner
MscgenBanner(d, isRequired) ==
    LET emit == (d.lines % d.linesPerPage = 0) \/ isRequired
    IN  [disp |-> [d EXCEPT !.lines = (IF emit THEN 0 ELSE d.lines) + 1],
         out  |-> IF emit THEN <<MscgenBannerLine(d)>> ELSE <<>>]

\* DispMscgen.SetObjList: the list is replaced, nothing is written
MscgenSetObjList(d, objList) ==
    [disp |-> [d EXCEPT !.objList = objList, !.objCnt = Len(objList)],
     out  |-> <<>>]

\* self.disp.Banner(...) and self.disp.SetObjList(...) on the display the
\* MSC was given
DispBanner(d, isRequired) ==
    IF d.kind = "DispMscgen" THEN MscgenBanner(d, isRequired)
    ELSE Banner(d, isRequired)

DispSetObjList(d, objList) ==
    IF d.kind = "DispMscgen" THEN MscgenSetObjList(d, objList)
    ELSE SetObjList(d, objList)

(***************************************************************************)
(* The object registry of the MSC: objDict, objList                        *)
(***************************************************************************)
\* MSC.__init__
MscInit(disp) ==
    [disp |-> disp, msgDict |-> <<>>, modDict |-> <<>>,
     objDict |-> <<>>, objList |-> <<>>]

\* self.modDict.get(ord(key[1]), "UNK(%d)" % ord(key[1]))
ModName(modDict, modId) ==
    IF modId \in DOMAIN modDict THEN modDict[modId]
    ELSE "UNK(" \o Dec(modId) \o ")"

\* a bug that prints the instance id in decimal
LabelDec(modDict, key) == Dec(key[1]) \o ":" \o ModName(modDict, key[2])

\* "%x:%s" % (ord(key[0]), self.modDict.get(ord(key[1]), ...))
Label(modDict, key) == Hex(key[1]) \o ":" \o ModName(modDict, key[2])

\* the label list AddObj and DelObj build for the display
Labels(modDict, objList) ==
    [i \in 1..Len(objList) |-> Label(modDict, objList[i])]

\* a bug that numbers columns from 1
NextColumnOneBased(objList) == Len(objList) + 1

\* idx = len(self.objList)
NextColumn(objList) == Len(objList)

\* dict assignment d[k] = v
DictSet(d, k, v) == [x \in (DOMAIN d) \cup {k} |-> IF x = k THEN v ELSE d[x]]

\* dict.pop(k, None)
DictPop(d, k) == [x \in (DOMAIN d) \ {k} |-> d[x]]

\* a bug that puts a new key in front of the list
ListAppendFront(objList, key) == <<key>> \o objList

\* self.objList.append(key)
ListAppend(objList, key) == Append(objList, key)

\* the position (from 1) of the first occurrence of key in objList
FirstIndex(objList, key) ==
    CHOOSE i \in 1..Len(objList) :
        objList[i] = key /\ \A j \in 1..(i - 1) : objList[j] # key

\* a bug that fills the hole with the last key
ListRemoveSwap(objList, key) ==
    LET i == FirstIndex(objList, key)
        n == Len(objList)
    IN  [j \in 1..(n - 1) |-> IF j = i THEN objList[n] ELSE objList[j]]

\* self.objList.remove(key), key being in the list
ListRemove(objList, key) ==
    LET i == FirstIndex(objList, key)
    IN  SubSeq(objList, 1, i - 1) \o SubSeq(objList, i + 1, Len(objList))

\* a bug that leaves the columns of the remaining keys as they were
RefreshStale(objDict, objList) == objDict

RECURSIVE RefreshFrom(_, _, _)
RefreshFrom(objDict, objList, idx) ==
    IF idx >= Len(objList) THEN objDict
    ELSE RefreshFrom(DictSet(objDict, objList[idx + 1], idx), objList, idx + 1)

\* for idx, key in enumerate(self.objList): self.objDict[key] = idx
Refresh(objDict, objList) == RefreshFrom(objDict, objList, 0)

\* a bug that reports a change for every key of the list
AddKeyAlways(r, key) ==
    IF key \notin DOMAIN r.objDict
    THEN [objDict |-> DictSet(r.objDict, key, NextColumn(r.objList)),
          objList |-> ListAppend(r.objList, key),
          isChanged |-> TRUE]
    ELSE [r EXCEPT !.isChanged = TRUE]

\* one turn of the loop of AddObj over keyList
AddKey(r, key) ==
    IF key \notin DOMAIN r.objDict
    THEN [objDict |-> DictSet(r.objDict, key, NextColumn(r.objList)),
          objList |-> ListAppend(r.objList, key),
          isChanged |-> TRUE]
    ELSE r

RECURSIVE AddKeys(_, _)
\* the loop of AddObj over keyList
AddKeys(r, keyList) ==
    IF keyList = <<>> THEN r
    ELSE AddKeys(AddKey(r, Head(keyList)), Tail(keyList))

\* the label loop raises IndexError at ord(key[0]) or ord(key[1]) when a key
\* of the list has fewer than two characters
LabelsRaise(objList) == \E i \in 1..Len(objList) : Len(objList[i]) < 2

\* MSC.AddObj: the MSC after the call, the lines written, the result and
\* the exception raised ("None" when the call returns)
AddObj(m, keyList) ==
    LET r == AddKeys([objDict |-> m.objDict, objList |-> m.objList,
                      isChanged |-> FALSE], keyList)
        m1 == [m EXCEPT !.objDict = r.objDict, !.objList = r.objList]
    IN  IF r.isChanged
        THEN IF LabelsRaise(m1.objList)
             THEN [msc |-> m1, calls |-> <<>>, out |-> <<>>,
                   isChanged |-> TRUE, exc |-> "IndexError"]
             ELSE LET labels == Labels(m1.modDict, m1.objList)
                      b == DispSetObjList(m1.disp, labels)
                  IN  [msc |-> [m1 EXCEPT !.disp = b.disp],
                       calls |-> <<[fn |-> "SetObjList", args |-> <<labels>>]>>,
                       out |-> b.out, isChanged |-> TRUE, exc |-> "None"]
        ELSE [msc |-> m1, calls |-> <<>>, out |-> <<>>, isChanged |-> FALSE,
              exc |-> "None"]

\* MSC.DelObj: the MSC after the call, the lines written and the
\* exception raised
DelObj(m, key) ==
    IF key \in DOMAIN m.objDict
    THEN LET list == ListRemove(m.objList, key)
             dict == Refresh(DictPop(m.objDict, key), list)
             m1 == [m EXCEPT !.objDict = dict, !.objList = list]
         IN  IF LabelsRaise(list)
             THEN [msc |-> m1, calls |-> <<>>, out |-> <<>>,
                   exc |-> "IndexError"]
             ELSE LET labels == Labels(m.modDict, list)
                      b == DispSetObjList(m.disp, labels)
                  IN  [msc |-> [m1 EXCEPT !.disp = b.disp],
                       calls |-> <<[fn |-> "SetObjList", args |-> <<labels>>]>>,
                       out |-> b.out, exc |-> "None"]
    ELSE [msc |-> m, calls |-> <<>>, out |-> <<>>, exc |-> "None"]

(***************************************************************************)
(* DispTerm drawing operations: a written row is the list of its tiles     *)
(***************************************************************************)
\* DispTerm.TILES[name] * n
Tiles(name, n) == [i \in 1..n |-> name]

Row(kind, tiles, text, color) ==
    [kind |-> kind, tiles |-> tiles, text |-> text, color |-> color]

\* a bug that fills the end of the row up to the last column but one
DispMessageShortFill(d, srcId, dstId, msgStr, color) ==
    LET dist == dstId - srcId
        start == IF dist > 0 THEN srcId ELSE dstId
        end == IF dist > 0 THEN dstId ELSE srcId
        arrow == IF dist = 0 THEN <<"SLF">>
                 ELSE IF dist > 0
                      THEN <<"RTE">> \o Tiles("THR", dist - 1) \o <<"RTA">>
                      ELSE <<"LFA">> \o Tiles("THR", (-dist) - 1) \o <<"LFE">>
    IN  Row("Message",
            Tiles("CEN", start) \o arrow \o Tiles("CEN", d.objCnt - 2 - end),
            msgStr, color)

\* DispTerm.Message
DispMessage(d, srcId, dstId, msgStr, color) ==
    LET dist == dstId - srcId
        start == IF dist > 0 THEN srcId ELSE dstId
        end == IF dist > 0 THEN dstId ELSE srcId
        arrow == IF dist = 0 THEN <<"SLF">>
                 ELSE IF dist > 0
                      THEN <<"RTE">> \o Tiles("THR", dist - 1) \o <<"RTA">>
                      ELSE <<"LFA">> \o Tiles("THR", (-dist) - 1) \o <<"LFE">>
    IN  Row("Message",
            Tiles("CEN", start) \o arrow \o Tiles("CEN", d.objCnt - 1 - end),
            msgStr, color)

\* DispTerm.Create: the arrow is drawn to the right whatever the sign of
\* dist, and nothing is written after the create tile
DispCreate(d, srcId, dstId, msgStr, color) ==
    LET dist == dstId - srcId
        start == IF dist > 0 THEN srcId ELSE dstId
    IN  Row("Create",
            Tiles("CEN", start) \o <<"RTE">>
                \o (IF dist > 1 THEN Tiles("THR", dist - 1) ELSE <<>>)
                \o <<"CR8">>,
            msgStr, color)

\* the loop over range(self.objCnt) of Event, State and Destroy
MarkRow(d, objId, tile) ==
    [idx \in 1..d.objCnt |-> IF idx - 1 = objId THEN tile ELSE "CEN"]

\* DispTerm.Event
DispEvent(d, objId, msgStr, color) ==
    Row("Event", MarkRow(d, objId, "EVT"), msgStr, color)

\* DispTerm.State
DispState(d, objId, stateStr, color) ==
    Row("State", MarkRow(d, objId, "STA"), stateStr, color)

\* DispTerm.Destroy
DispDestroy(d, objId, color) ==
    Row("Destroy", MarkRow(d, objId, "DES"), d.objList[objId + 1], color)

\* DispTerm.TestPt
DispTestPt(d, objId, value, color) ==
    Row("TestPt",
        Tiles("CEN", objId) \o <<"VAL">> \o Tiles("THR", d.objCnt - 1 - objId),
        value, color)

(***************************************************************************)
(* DispMscgen: the lines it writes, with the objects each line names       *)
(***************************************************************************)
MscgenLine(kind, names, text, color) ==
    [kind |-> kind, names |-> names, text |-> text, color |-> color]

\* DispMscgen.Message
MscgenMessage(d, srcId, dstId, msgStr, color) ==
    MscgenLine("Message", <<d.objList[srcId + 1], d.objList[dstId + 1]>>,
               msgStr, color)

\* DispMscgen.Event
MscgenEvent(d, objId, msgStr, color) ==
    MscgenLine("Event", <<d.objList[objId + 1]>>, msgStr, color)

\* DispMscgen.State
MscgenState(d, objId, stateStr, color) ==
    MscgenLine("State", <<d.objList[objId + 1]>>, stateStr,
               IF color # MSC_COLOR_NONE THEN color ELSE MSC_COLOR_WHT)

\* DispMscgen.TestPt
MscgenTestPt(d, objId, msgStr, color) ==
    MscgenLine("TestPt", <<d.objList[objId + 1]>>, msgStr,
               IF color # MSC_COLOR_NONE THEN color ELSE MSC_COLOR_WHT)

(***************************************************************************)
(* The drawing operations of the display the MSC was given: the lines one  *)
(* call writes                                                             *)
(***************************************************************************)
DrawMessage(d, srcId, dstId, msgStr, color) ==
    IF d.kind = "DispMscgen" THEN <<MscgenMessage(d, srcId, dstId, msgStr, color)>>
    ELSE <<DispMessage(d, srcId, dstId, msgStr, color)>>

DrawEvent(d, objId, msgStr, color) ==
    IF d.kind = "DispMscgen" THEN <<MscgenEvent(d, objId, msgStr, color)>>
    ELSE <<DispEvent(d, objId, msgStr, color)>>

DrawState(d, objId, stateStr, color) ==
    IF d.kind = "DispMscgen" THEN <<MscgenState(d, objId, stateStr, color)>>
    ELSE <<DispState(d, objId, stateStr, color)>>

DrawTestPt(d, objId, value, color) ==
    IF d.kind = "DispMscgen" THEN <<MscgenTestPt(d, objId, value, color)>>
    ELSE <<DispTestPt(d, objId, value, color)>>

\* DispMscgen.Destroy is "pass"
DrawDestroy(d, objId, color) ==
    IF d.kind = "DispMscgen" THEN <<>>
    ELSE <<DispDestroy(d, objId, color)>>

\* DispTerm.Destroy raises IndexError at self.objList[objId] when the
\* display holds no label for the column
DestroyRaises(d, objId) == d.kind = "DispTerm" /\ objId >= d.objCnt

(***************************************************************************)
(* MSC.Parse                                                               *)
(***************************************************************************)
Call(fn, args) == [fn |-> fn, args |-> args]

\* self.msgDict.get(msg, MSC.DEFAULT_MESSAGE % msg)
MsgText(msgDict, msg) ==
    IF msg \in DOMAIN msgDict THEN msgDict[msg] ELSE DefaultMessage(msg)

\* print("unknown src:", src)
UnknownSrc(src) == <<[text |-> "unknown src:", src |-> src]>>

\* what a branch of Parse hands back: the MSC, the calls made on the
\* display, the lines written, what was printed and the exception raised
Outcome(m, cs, o, rep, exc) ==
    [msc |-> m, calls |-> cs, out |-> o, report |-> rep, exc |-> exc]

\* the HDR_TYPE_MSG branch
ParseMSG(m, pkt, color) ==
    LET src == Slice(pkt, 2, 4)
        dst == Slice(pkt, 4, 6)
        raw == Slice(pkt, 6, 8)
        a == AddObj(m, <<src, dst>>)
        b == DispBanner(a.msc.disp, FALSE)
        m2 == [a.msc EXCEPT !.disp = b.disp]
        cs == a.calls \o <<Call("Banner", <<FALSE>>)>>
    IN  IF a.exc # "None" THEN Outcome(a.msc, a.calls, a.out, <<>>, a.exc)
        ELSE IF Len(raw) # 2
        THEN Outcome(m2, cs, a.out \o b.out, <<>>, "struct.error")
        ELSE LET msg == UnpackH(raw).lo
                 text == MsgText(m2.msgDict, msg)
                 s == m2.objDict[src]
                 t == m2.objDict[dst]
             IN  Outcome(m2, cs \o <<Call("Message", <<s, t, text, color>>)>>,
                         a.out \o b.out
                         \o DrawMessage(m2.disp, s, t, text, color),
                         <<>>, "None")

\* the HDR_TYPE_EVT and HDR_TYPE_STA branches, which differ in the
\* drawing operation only
ParseEVTSTA(m, pkt, color, fn) ==
    LET src == Slice(pkt, 2, 4)
        raw == Slice(pkt, 4, 6)
        a == AddObj(m, <<src>>)
        b == DispBanner(a.msc.disp, FALSE)
        m2 == [a.msc EXCEPT !.disp = b.disp]
        cs == a.calls \o <<Call("Banner", <<FALSE>>)>>
    IN  IF a.exc # "None" THEN Outcome(a.msc, a.calls, a.out, <<>>, a.exc)
        ELSE IF Len(raw) # 2
        THEN Outcome(m2, cs, a.out \o b.out, <<>>, "struct.error")
        ELSE LET msg == UnpackH(raw).lo
                 text == MsgText(m2.msgDict, msg)
                 s == m2.objDict[src]
             IN  Outcome(m2, cs \o <<Call(fn, <<s, text, color>>)>>,
                         a.out \o b.out \o
                         (IF fn = "Event"
                          THEN DrawEvent(m2.disp, s, text, color)
                          ELSE DrawState(m2.disp, s, text, color)),
                         <<>>, "None")

\* a bug that registers the key of a test point like the key of an event
ParseTPCreates(m, pkt, color) ==
    LET src == Slice(pkt, 2, 4)
        raw == SliceFrom(pkt, 4)
        a == AddObj(m, <<src>>)
    IN  IF a.exc # "None" THEN Outcome(a.msc, a.calls, a.out, <<>>, a.exc)
        ELSE IF Len(raw) # 4
        THEN Outcome(a.msc, a.calls, a.out, <<>>, "struct.error")
        ELSE LET value == UnpackL(raw)
                 s == a.msc.objDict[src]
             IN  Outcome(a.msc,
                         a.calls \o <<Call("TestPt", <<s, value, color>>)>>,
                         a.out \o DrawTestPt(a.msc.disp, s, value, color),
                         <<>>, "None")

\* the HDR_TYPE_TP branch
ParseTP(m, pkt, color) ==
    LET src == Slice(pkt, 2, 4)
        raw == SliceFrom(pkt, 4)
    IN  IF src \in DOMAIN m.objDict
        THEN IF Len(raw) # 4
             THEN Outcome(m, <<>>, <<>>, <<>>, "struct.error")
             ELSE LET value == UnpackL(raw)
                      s == m.objDict[src]
                  IN  Outcome(m, <<Call("TestPt", <<s, value, color>>)>>,
                              DrawTestPt(m.disp, s, value, color),
                              <<>>, "None")
        ELSE Outcome(m, <<>>, <<>>, UnknownSrc(src), "None")

\* a bug that removes the key and pages the display whether or not the key
\* is registered
ParseDESAlways(m, pkt, color) ==
    LET src == Slice(pkt, 2, 4)
        a == DelObj(m, src)
        b == DispBanner(a.msc.disp, FALSE)
    IN  Outcome([a.msc EXCEPT !.disp = b.disp],
                a.calls \o <<Call("Banner", <<FALSE>>)>>,
                a.out \o b.out,
                IF src \in DOMAIN m.objDict THEN <<>> ELSE UnknownSrc(src),
                "None")

\* a bug that removes the key before it draws the destroy row
ParseDESRemovesFirst(m, pkt, color) ==
    LET src == Slice(pkt, 2, 4)
    IN  IF src \in DOMAIN m.objDict
        THEN LET s == m.objDict[src]
                 a == DelObj(m, src)
                 b == DispBanner(a.msc.disp, FALSE)
             IN  IF a.exc # "None" \/ DestroyRaises(a.msc.disp, s)
                 THEN Outcome(a.msc, a.calls, a.out, <<>>, "IndexError")
                 ELSE Outcome([a.msc EXCEPT !.disp = b.disp],
                              a.calls \o <<Call("Destroy", <<s, color>>),
                                           Call("Banner", <<FALSE>>)>>,
                              a.out \o DrawDestroy(a.msc.disp, s, color)
                                    \o b.out,
                              <<>>, "None")
        ELSE Outcome(m, <<>>, <<>>, UnknownSrc(src), "None")

\* the HDR_TYPE_DES branch
ParseDES(m, pkt, color) ==
    LET src == Slice(pkt, 2, 4)
    IN  IF src \in DOMAIN m.objDict
        THEN LET s == m.objDict[src]
                 a == DelObj(m, src)
                 b == DispBanner(a.msc.disp, FALSE)
                 cs == <<Call("Destroy", <<s, color>>)>>
             IN  IF DestroyRaises(m.disp, s)
                 THEN Outcome(m, cs, <<>>, <<>>, "IndexError")
                 ELSE IF a.exc # "None"
                 THEN Outcome(a.msc, cs \o a.calls,
                              DrawDestroy(m.disp, s, color) \o a.out,
                              <<>>, a.exc)
                 ELSE Outcome([a.msc EXCEPT !.disp = b.disp],
                              cs \o a.calls \o <<Call("Banner", <<FALSE>>)>>,
                              DrawDestroy(m.disp, s, color) \o a.out
                                  \o b.out,
                              <<>>, "None")
        ELSE Outcome(m, <<>>, <<>>, UnknownSrc(src), "None")

\* MSC.Parse of a packet; ord(pkt[0]) raises IndexError on an empty one,
\* and an opcode without a branch falls through
ParsePkt(m, pkt) ==
    IF pkt = <<>> THEN Outcome(m, <<>>, <<>>, <<>>, "IndexError")
    ELSE
    LET hdr == pkt[1]
        color == Color(HdrPri(hdr))
        ucOpc == HdrOpc(hdr)
    IN  CASE ucOpc = HDR_TYPE_MSG -> ParseMSG(m, pkt, color)
          [] ucOpc = HDR_TYPE_EVT -> ParseEVTSTA(m, pkt, color, "Event")
          [] ucOpc = HDR_TYPE_STA -> ParseEVTSTA(m, pkt, color, "State")
          [] ucOpc = HDR_TYPE_TP  -> ParseTP(m, pkt, color)
          [] ucOpc = HDR_TYPE_DES -> ParseDES(m, pkt, color)
          [] OTHER -> Outcome(m, <<>>, <<>>, <<>>, "None")

(***************************************************************************)
(* MSC.RegisterMod, MSC.RegisterMsg                                        *)
(***************************************************************************)
\* self.modDict[ucModId] = strMod[0:MAX_NAME_LEN]
RegisterMod(m, ucModId, strMod) ==
    [m EXCEPT !.modDict = DictSet(@, ucModId, Slice(strMod, 0, MAX_NAME_LEN))]

\* self.msgDict[usMsgId] = strMsg
RegisterMsg(m, usMsgId, strMsg) ==
    [m EXCEPT !.msgDict = DictSet(@, usMsgId, strMsg)]

(***************************************************************************)
(* Inputs of the model                                                     *)
(***************************************************************************)
\* the object keys packets refer to, <<instance id, module id>>; module 2
\* is left out of modDict, so that its object is labelled UNK(2)
Keys == {<<8, 0>>, <<10, 1>>, <<11, 1>>, <<9, 2>>}

\* the two keys of the packets that run through every priority
FewKeys == {<<8, 0>>, <<10, 1>>}

\* the message id packets carry (main() registers it as "MsgA")
MsgIds == {0}

\* the test point value packets carry: 0x12345678
TpValues == {U32(4660, 22136)}

\* every value of the 3-bit priority field
Pris == 0..HDR_PRI_MSK

\* the packets BuildPkt produces for priorities P and object keys K
PktsOf(P, K) ==
    {BuildPkt(p, HDR_TYPE_MSG, U32(0, id), s[2], s[1], t[2], t[1]) :
        p \in P, id \in MsgIds, s \in K, t \in K}
    \cup {BuildPkt(p, o, U32(0, id), s[2], s[1], 0, 0) :
        p \in P, o \in {HDR_TYPE_EVT, HDR_TYPE_STA}, id \in MsgIds, s \in K}
    \cup {BuildPkt(p, HDR_TYPE_TP, v, s[2], s[1], 0, 0) :
        p \in P, v \in TpValues, s \in K}
    \cup {BuildPkt(p, HDR_TYPE_DES, NoValue, s[2], s[1], 0, 0) :
        p \in P, s \in K}

\* packets of priority 0 over all keys
Pkts == PktsOf({0}, Keys)

\* the length of the packet BuildPkt produces for an opcode
PktLen(ucOpc) == Len(BuildPkt(0, ucOpc, U32(0, 0), 0, 0, 0, 0))

\* a buffer that ends before the payload of its opcode does
IsTruncated(pkt) ==
    /\ HdrOpc(pkt[1]) \in {HDR_TYPE_MSG, HDR_TYPE_EVT, HDR_TYPE_STA,
                            HDR_TYPE_TP, HDR_TYPE_DES}
    /\ Len(pkt) < PktLen(HdrOpc(pkt[1]))

\* the packets of one object, and the message of that object to another
WholePkts ==
    PktsOf({0}, {<<8, 0>>})
    \cup {BuildPkt(0, HDR_TYPE_MSG, U32(0, 0), 0, 8, 1, 10)}

\* where a packet is cut: in the middle of the second key of a message
\* (or of the id of an event), and after it
CutLens == {PktLen(HDR_TYPE_MSG) - 3, PktLen(HDR_TYPE_MSG) - 2}

\* the same packets cut short
TruncPkts == {Slice(p, 0, n) : p \in WholePkts, n \in CutLens} \ WholePkts

\* headers whose opcode has no HDR_TYPE_*, in front of the body of an event
OtherOpcPkts ==
    {<<BuildHdr(0, ucOpc)>> \o SliceFrom(BuildPkt(0, HDR_TYPE_EVT, U32(0, 0), 0, 8, 0, 0), 1) :
        ucOpc \in {HDR_OPC_MSK}}

\* what a transport that may cut or garble a packet delivers
PktsTrunc == WholePkts \cup TruncPkts \cup OtherOpcPkts

\* packets of every priority over two keys
PktsPri == PktsOf(Pris, FewKeys)

RECURSIVE SeqsUpTo(_, _)
\* the sequences over S of length at most n
SeqsUpTo(S, n) ==
    IF n = 0 THEN {<<>>}
    ELSE LET shorter == SeqsUpTo(S, n - 1)
         IN  shorter \cup {Append(q, x) : q \in shorter, x \in S}

KeyLists == SeqsUpTo(Keys, MaxKeyListLen)

\* field values at and between the ends of their ranges
ByteVals == {0, 10, 255}
U16Vals == {U32(0, 0), U32(0, 4660), U32(0, 65535)}
U32Vals == {U32(0, 0), U32(4660, 22136), U32(65535, 65535)}
Opcodes == {HDR_TYPE_MSG, HDR_TYPE_EVT, HDR_TYPE_STA, HDR_TYPE_TP, HDR_TYPE_DES}

\* the arguments of BuildPkt; an opcode without destination or message id
\* gets the default 0 there
BuildArgs ==
    {[ucPri |-> p, ucOpc |-> o, msgId |-> v, srcMod |-> sm, srcId |-> si,
      dstMod |-> dm, dstId |-> di] :
        p \in Pris, o \in Opcodes, v \in U16Vals \cup U32Vals,
        sm \in ByteVals, si \in ByteVals, dm \in ByteVals, di \in ByteVals}

ValidArgs(a) ==
    /\ a.ucOpc \in {HDR_TYPE_MSG, HDR_TYPE_EVT, HDR_TYPE_STA} => a.msgId \in U16Vals
    /\ a.ucOpc = HDR_TYPE_TP => a.msgId \in U32Vals
    /\ a.ucOpc = HDR_TYPE_DES => a.msgId = NoValue
    /\ a.ucOpc # HDR_TYPE_MSG => a.dstMod = 0 /\ a.dstId = 0

(***************************************************************************)
(* History of the run: the order in which the live keys were added         *)
(***************************************************************************)
RECURSIVE FirstSeen(_, _)
\* the keys of keyList that are not in live, each once, in order of reference
FirstSeen(keyList, live) ==
    IF keyList = <<>> THEN <<>>
    ELSE IF Head(keyList) \in live THEN FirstSeen(Tail(keyList), live)
    ELSE <<Head(keyList)>> \o FirstSeen(Tail(keyList), live \cup {Head(keyList)})

\* the keys a packet makes Parse register, and the key it makes Parse remove
PktAdds(pkt) ==
    LET ucOpc == HdrOpc(pkt[1])
    IN  CASE ucOpc = HDR_TYPE_MSG -> <<Slice(pkt, 2, 4), Slice(pkt, 4, 6)>>
          [] ucOpc \in {HDR_TYPE_EVT, HDR_TYPE_STA} -> <<Slice(pkt, 2, 4)>>
          [] OTHER -> <<>>

PktRemoves(pkt) ==
    IF HdrOpc(pkt[1]) = HDR_TYPE_DES THEN {Slice(pkt, 2, 4)} ELSE {}

Without(order, gone) == SelectSeq(order, LAMBDA k : k \notin gone)

(***************************************************************************)
(* The state machine                                                       *)
(***************************************************************************)
NoArgs == [ucPri |-> 0, ucOpc |-> 0, msgId |-> NoValue, srcMod |-> 0,
           srcId |-> 0, dstMod |-> 0, dstId |-> 0]

NoFields == [ucPri |-> 0, ucOpc |-> 0, src |-> NoKey, dst |-> NoKey,
             msg |-> NoValue]

\* main(): msc = MSC(disp), then Step 1 and Step 2 register modules and
\* messages before any packet is parsed (here modules 0 and 1, message 0)
MscReadyOn(disp) ==
    RegisterMsg(
        RegisterMod(RegisterMod(MscInit(disp), 0, "ModA"), 1, "ModB"),
        0, "MsgA")

\* the MSC of main() on a DispTerm
MscReady(linesPerPage) == MscReadyOn(DispInit(linesPerPage))

RECURSIVE ListedAfter(_, _, _)
\* The labels an entity declaration of DispMscgen has listed since they
\* entered the object list of the display: each declaration in the lines
\* written lists its names, and a label that has left the list is forgotten
ListedAfter(before, lines, objList) ==
    IF lines = <<>> THEN before \cap Range(objList)
    ELSE ListedAfter(IF Head(lines).kind = "entities"
                     THEN Range(Head(lines).names) ELSE before,
                     Tail(lines), objList)

InitWith(args) ==
    /\ msc = MscReady(MaxLinesPerPage)
    /\ calls = <<>>
    /\ out = <<>>
    /\ report = <<>>
    /\ op = [name |-> "init", arg |-> <<>>]
    /\ ret = "None"
    /\ repeats = "no"
    /\ addOrder = <<>>
    /\ scene = <<>>
    /\ built = [args |-> args, pkt |-> <<>>]
    /\ parsed = NoFields
    /\ bannerCalls = [n |-> 0, pure |-> TRUE, dry |-> 0]
    /\ listed = {}

Init == InitWith(NoArgs)

\* the bookkeeping every call shares: which call it was and, when it
\* repeats the call before it, what that call returned
Record(name, arg) ==
    /\ op' = [name |-> name, arg |-> arg]
    /\ repeats' = IF op.name = name /\ op.arg = arg THEN ret ELSE "no"

\* msc.AddObj(keyList), called directly
AddObjCall ==
    \E keyList \in KeyLists :
        LET a == AddObj(msc, keyList)
        IN  /\ msc' = a.msc
            /\ calls' = a.calls /\ out' = a.out /\ report' = <<>>
            /\ ret' = IF a.exc # "None" THEN a.exc
                      ELSE IF a.isChanged THEN "True" ELSE "False"
            /\ Record("AddObj", keyList)
            /\ addOrder' = addOrder \o FirstSeen(keyList, Range(addOrder))
            /\ listed' = ListedAfter(listed, a.out, a.msc.disp.objList)
            /\ UNCHANGED <<scene, built, parsed, bannerCalls>>

\* msc.DelObj(key), called directly
DelObjCall ==
    \E key \in Keys :
        LET a == DelObj(msc, key)
        IN  /\ msc' = a.msc
            /\ calls' = a.calls /\ out' = a.out /\ report' = <<>>
            /\ ret' = a.exc
            /\ Record("DelObj", key)
            /\ addOrder' = Without(addOrder, {key})
            /\ listed' = ListedAfter(listed, a.out, a.msc.disp.objList)
            /\ UNCHANGED <<scene, built, parsed, bannerCalls>>

\* The scenario "columns {0,1,2} exist and column 1 is destroyed": scene is
\* <<>> outside it, <<c>> once the object at column 1 of three has been
\* removed (c is the object that was at column 2), and <<c, k>> once the
\* next key k has been added after that.  Any other removal ends it.
SceneNext(sc, m, adds, removes) ==
    LET gone == removes \cap DOMAIN m.objDict
        new == FirstSeen(adds, DOMAIN m.objDict)
    IN  IF gone # {}
        THEN IF Len(m.objList) = 3 /\ \E k \in gone : m.objDict[k] = 1
             THEN <<m.objList[3]>>
             ELSE <<>>
        ELSE IF new # <<>> /\ Len(sc) = 1 THEN <<sc[1], new[1]>>
        ELSE sc

\* msc.Parse(pkt) for a packet of the set P; track says whether the run
\* follows the scenario
ParseFrom(P, track) ==
    \E pkt \in P :
        LET a == ParsePkt(msc, pkt)
        IN  /\ msc' = a.msc
            /\ calls' = a.calls /\ out' = a.out /\ report' = a.report
            /\ ret' = a.exc
            /\ Record("Parse", pkt)
            /\ addOrder' = Without(addOrder, PktRemoves(pkt))
                           \o FirstSeen(PktAdds(pkt), Range(addOrder))
            /\ scene' = IF track
                        THEN SceneNext(scene, msc, PktAdds(pkt), PktRemoves(pkt))
                        ELSE scene
            /\ listed' = ListedAfter(listed, a.out, a.msc.disp.objList)
            /\ UNCHANGED <<built, parsed, bannerCalls>>

Parse == ParseFrom(Pkts, FALSE)

Next == AddObjCall \/ DelObjCall \/ Parse

\* the registry under direct calls and packets of priority 0
Spec == Init /\ [][Next]_vars

ParsePri == ParseFrom(PktsPri, FALSE)

NextPri == ParsePri

\* the packet stream under every priority
SpecPri == Init /\ [][NextPri]_vars

ParseScene == ParseFrom(Pkts, TRUE)

NextScene == ParseScene

\* the packet stream of priority 0, followed through the scenario
SpecScene == Init /\ [][NextScene]_vars

ParseTrunc == ParseFrom(PktsTrunc, FALSE)

NextTrunc == ParseTrunc

\* the packet stream of a transport that may cut or garble a packet
SpecTrunc == Init /\ [][NextTrunc]_vars

\* main() with DispMscgen: the same MSC on a display of that class
InitMscgen ==
    /\ msc = MscReadyOn(MscgenInit(MaxLinesPerPage))
    /\ calls = <<>> /\ out = <<>> /\ report = <<>>
    /\ op = [name |-> "init", arg |-> <<>>]
    /\ ret = "None" /\ repeats = "no"
    /\ addOrder = <<>> /\ scene = <<>>
    /\ built = [args |-> NoArgs, pkt |-> <<>>]
    /\ parsed = NoFields
    /\ bannerCalls = [n |-> 0, pure |-> TRUE, dry |-> 0]
    /\ listed = {}

\* whole packets of priority 0 over two keys
PktsMscgen == PktsOf({0}, FewKeys)

ParseMscgen == ParseFrom(PktsMscgen, FALSE)

NextMscgen == ParseMscgen

\* the packet stream drawn by a DispMscgen
SpecMscgen == InitMscgen /\ [][NextMscgen]_vars

\* msc.BuildPkt(...) for the arguments drawn at the start
BuildPktCall ==
    /\ op.name = "init"
    /\ built' = [built EXCEPT !.pkt =
           BuildPkt(built.args.ucPri, built.args.ucOpc, built.args.msgId,
                    built.args.srcMod, built.args.srcId,
                    built.args.dstMod, built.args.dstId)]
    /\ op' = [name |-> "BuildPkt", arg |-> <<>>]
    /\ UNCHANGED <<msc, calls, out, report, ret, repeats, addOrder, scene, parsed,
                   bannerCalls, listed>>

\* the decoding of the packet built
ParseFieldsCall ==
    /\ op.name = "BuildPkt"
    /\ parsed' = ParseFields(built.pkt)
    /\ op' = [name |-> "ParseFields", arg |-> <<>>]
    /\ UNCHANGED <<msc, calls, out, report, ret, repeats, addOrder, scene, built,
                   bannerCalls, listed>>

InitCodec == \E args \in BuildArgs : ValidArgs(args) /\ InitWith(args)

NextCodec == BuildPktCall \/ ParseFieldsCall

\* the codec alone: build a packet, then decode it
SpecCodec == InitCodec /\ [][NextCodec]_vars

\* the opcode and priority arguments of BuildPkt: every value of the two
\* fields, and as many values again that do not fit the field
HdrOpcs == 0..(2 * HDR_OPC_MSK + 1)
HdrPris == 0..(2 * HDR_PRI_MSK + 1)

InitHdr ==
    \E ucPri \in HdrPris, ucOpc \in HdrOpcs :
        InitWith([NoArgs EXCEPT !.ucPri = ucPri, !.ucOpc = ucOpc])

\* Step 1 of BuildPkt: the header byte of the packet
BuildHdrCall ==
    /\ op.name = "init"
    /\ built' = [built EXCEPT !.pkt =
                     <<BuildHdr(built.args.ucPri, built.args.ucOpc)>>]
    /\ op' = [name |-> "BuildHdr", arg |-> <<>>]
    /\ UNCHANGED <<msc, calls, out, report, ret, repeats, addOrder, scene, parsed,
                   bannerCalls, listed>>

\* the first lines of Parse: ucPri and ucOpc taken from the header byte
ParseHdrCall ==
    /\ op.name = "BuildHdr"
    /\ parsed' = [NoFields EXCEPT !.ucPri = HdrPri(built.pkt[1]),
                                  !.ucOpc = HdrOpc(built.pkt[1])]
    /\ op' = [name |-> "ParseHdr", arg |-> <<>>]
    /\ UNCHANGED <<msc, calls, out, report, ret, repeats, addOrder, scene, built,
                   bannerCalls, listed>>

NextHdr == BuildHdrCall \/ ParseHdrCall

\* the header byte alone: build it, then decode it
SpecHdr == InitHdr /\ [][NextHdr]_vars

(***************************************************************************)
(* The color tables of the four displays                                   *)
(***************************************************************************)
\* DispTerm.COLOR: (start, end) escape codes, ESC standing for "\033"
DispTermCOLOR ==
    << <<"", "">>,
       <<"ESC[1;31m", "ESC[0m">>, <<"ESC[1;32m", "ESC[0m">>,
       <<"ESC[1;33m", "ESC[0m">>, <<"ESC[1;34m", "ESC[0m">>,
       <<"ESC[1;35m", "ESC[0m">>, <<"ESC[1;36m", "ESC[0m">> >>

\* DispPlantUML.COLOR
DispPlantUMLCOLOR ==
    <<"", "[#red]", "[#green]", "[#yellow]", "[#blue]", "[#magenta]", "[#cyan]">>

\* DispMscgen.COLOR
DispMscgenCOLOR ==
    <<"#000000", "#ff0000", "#00ff00", "#ffff00", "#0000ff", "#ff00ff",
      "#00ffff", "#ffffff">>

Backends == {"DispTerm", "DispPlantUML", "DispMscgen", "DispWeb"}

DrawOps == {"Message", "Event", "State", "Create", "Destroy", "TestPt"}

\* every MSC_COLOR_* code
Colors == MSC_COLOR_NONE..MSC_COLOR_WHT

\* the table a display indexes in a drawing operation; <<>> when the
\* operation looks no color up (DispWeb, the notes of DispPlantUML, the
\* operations of DispMscgen that are "pass")
ColorTable(backend, fn) ==
    CASE backend = "DispTerm" -> DispTermCOLOR
      [] backend = "DispPlantUML" /\ fn \in {"Message", "Event", "Create"} ->
            DispPlantUMLCOLOR
      [] backend = "DispMscgen" /\ fn \in {"Message", "Event", "State", "TestPt"} ->
            DispMscgenCOLOR
      [] OTHER -> <<>>

\* the index used: DispMscgen.State and DispMscgen.TestPt draw
\* MSC_COLOR_NONE as MSC_COLOR_WHT
ColorIndex(backend, fn, color) ==
    IF backend = "DispMscgen" /\ fn \in {"State", "TestPt"}
          /\ color = MSC_COLOR_NONE
    THEN MSC_COLOR_WHT
    ELSE color

\* a drawing operation of a display with a color: the styling written and
\* the exception raised, COLOR[color] being an IndexError past the table
Draw(backend, fn, color) ==
    LET table == ColorTable(backend, fn)
        idx == ColorIndex(backend, fn, color)
    IN  IF table = <<>> THEN [style |-> <<>>, exc |-> "None"]
        ELSE IF idx >= Len(table) THEN [style |-> <<>>, exc |-> "IndexError"]
        ELSE [style |-> <<table[idx + 1]>>, exc |-> "None"]

\* disp.<fn>(..., color) on a display of one of the four classes
DrawCall ==
    \E backend \in Backends, fn \in DrawOps, color \in Colors :
        LET a == Draw(backend, fn, color)
        IN  /\ out' = a.style
            /\ ret' = a.exc
            /\ op' = [name |-> "Draw", arg |-> <<backend, fn, color>>]
            /\ calls' = <<>> /\ report' = <<>>
            /\ UNCHANGED <<msc, repeats, addOrder, scene, built, parsed,
                           bannerCalls, listed>>

NextColor == DrawCall

\* the drawing operations of the four displays under every color
SpecColor == Init /\ [][NextColor]_vars

\* main(), "Test Display": the display is driven directly, without a
\* registry in front of it.  bannerCalls counts the direct Banner calls,
\* remembers whether the display has received Banner(False) calls only, and
\* counts the Banner calls made since the banner was last written (dry).
\* The labels declared are those of the keys (8,1), (9,2), (10,0), ...
DispLabels(n) ==
    [i \in 1..n |-> Label(MscReady(1).modDict, <<7 + i, i % 3>>)]

InitDisp ==
    \E linesPerPage \in 1..MaxLinesPerPage :
        /\ msc = MscInit(DispInit(linesPerPage))
        /\ calls = <<>> /\ out = <<>> /\ report = <<>>
        /\ op = [name |-> "init", arg |-> <<>>]
        /\ ret = "None" /\ repeats = "no"
        /\ addOrder = <<>> /\ scene = <<>>
        /\ built = [args |-> NoArgs, pkt |-> <<>>]
        /\ parsed = NoFields
        /\ bannerCalls = [n |-> 0, pure |-> TRUE, dry |-> 0]
        /\ listed = {}

\* what a direct call on the display leaves alone
DispFrame ==
    /\ calls' = <<>> /\ report' = <<>>
    /\ UNCHANGED <<ret, repeats, addOrder, scene, built, parsed, listed>>

\* disp.Banner(isRequired)
BannerCall ==
    \E isRequired \in BOOLEAN :
        LET b == Banner(msc.disp, isRequired)
        IN  /\ bannerCalls.n < MaxBannerCalls
            /\ msc' = [msc EXCEPT !.disp = b.disp]
            /\ out' = b.out
            /\ op' = [name |-> "Banner", arg |-> isRequired]
            /\ bannerCalls' = [n |-> bannerCalls.n + 1,
                               pure |-> bannerCalls.pure /\ ~isRequired,
                               dry |-> IF b.out # <<>> THEN 0
                                       ELSE bannerCalls.dry + 1]
            /\ DispFrame

\* disp.SetObjList(objList)
SetObjListCall ==
    \E n \in 0..MaxObjCnt :
        LET b == SetObjList(msc.disp, DispLabels(n))
        IN  /\ msc' = [msc EXCEPT !.disp = b.disp]
            /\ out' = b.out
            /\ op' = [name |-> "SetObjList", arg |-> DispLabels(n)]
            /\ bannerCalls' = [bannerCalls EXCEPT !.pure = FALSE, !.dry = 0]
            /\ DispFrame

\* disp.Message(srcId, dstId, "Message", color) between two life lines
MessageCall ==
    \E srcId, dstId \in 0..(msc.disp.objCnt - 1) :
        /\ out' = <<DispMessage(msc.disp, srcId, dstId, "Message",
                                MSC_COLOR_NONE)>>
        /\ op' = [name |-> "Message", arg |-> <<srcId, dstId>>]
        /\ bannerCalls' = [bannerCalls EXCEPT !.pure = FALSE]
        /\ UNCHANGED msc
        /\ DispFrame

\* disp.Create(srcId, dstId, "New Obj", color) between two life lines
CreateCall ==
    \E srcId, dstId \in 0..(msc.disp.objCnt - 1) :
        /\ out' = <<DispCreate(msc.disp, srcId, dstId, "New Obj",
                               MSC_COLOR_NONE)>>
        /\ op' = [name |-> "Create", arg |-> <<srcId, dstId>>]
        /\ bannerCalls' = [bannerCalls EXCEPT !.pure = FALSE]
        /\ UNCHANGED msc
        /\ DispFrame

NextDisp == BannerCall \/ SetObjListCall \/ MessageCall \/ CreateCall

\* the display alone, under direct calls
SpecDisp == InitDisp /\ [][NextDisp]_vars

TypeOK ==
    /\ msc.disp.lines \in 0..msc.disp.linesPerPage
    /\ Len(msc.objList) <= Cardinality(Keys)

(***************************************************************************)
(* Vocabulary of the properties                                            *)
(***************************************************************************)
ObjDict == msc.objDict
ObjList == msc.objList
Live == DOMAIN msc.objDict

DrawingFns == {"Message", "Event", "State", "TestPt", "Destroy"}

\* the color argument of a drawing call (always the last one)
CallColor(c) == c.args[Len(c.args)]

\* the drawing calls of the last operation
DrawingCalls == {i \in 1..Len(calls) : calls[i].fn \in DrawingFns}

IsParseOf(o, ucOpc) == o.name = "Parse" /\ HdrOpc(o.arg[1]) = ucOpc

\* the key a call asks to remove: DelObj(key), or Parse of a Destroy packet
RemovalOf(o) ==
    IF o.name = "DelObj" THEN {o.arg}
    ELSE IF o.name = "Parse" THEN PktRemoves(o.arg)
    ELSE {}

\* the keys a call asks to register: AddObj(keyList), or Parse of a packet
AdditionsOf(o) ==
    IF o.name = "AddObj" THEN o.arg
    ELSE IF o.name = "Parse" THEN PktAdds(o.arg)
    ELSE <<>>

(***************************************************************************)
(* C1: after any sequence of AddObj / DelObj calls and parsed packets the  *)
(* columns held by ObjDict are exactly 0..n-1, n the number of live        *)
(* objects, with no gap and no duplicate.                                  *)
(***************************************************************************)
C1_ColumnsDense ==
    LET n == Cardinality(Live)
    IN  /\ {ObjDict[k] : k \in Live} = 0..(n - 1)
        /\ \A j, k \in Live : j # k => ObjDict[j] # ObjDict[k]

\* the object at column 0 of three has just been destroyed
C1_Witness ==
    /\ IsParseOf(op, HDR_TYPE_DES)
    /\ calls # <<>> /\ calls[1].fn = "Destroy" /\ calls[1].args[1] = 0
    /\ Cardinality(Live) = 2

(***************************************************************************)
(* C2: DelObj of a live key at column k leaves the objects below column k  *)
(* where they are, lowers every column above k by one and keeps the        *)
(* relative order of the remaining objects.                                *)
(***************************************************************************)
C2_DelObjCompacts ==
    [][\A key \in RemovalOf(op') \cap Live :
          LET k == ObjDict[key]
          IN  /\ DOMAIN ObjDict' = Live \ {key}
              /\ \A j \in Live \ {key} :
                    ObjDict'[j] = IF ObjDict[j] > k THEN ObjDict[j] - 1
                                                    ELSE ObjDict[j]
              /\ \A i, j \in Live \ {key} :
                    (ObjDict[i] < ObjDict[j]) <=> (ObjDict'[i] < ObjDict'[j])
              /\ msc'.objList = Without(ObjList, {key})]_vars

\* the object at column 1 of four has just been destroyed
C2_Witness ==
    /\ IsParseOf(op, HDR_TYPE_DES)
    /\ calls # <<>> /\ calls[1].fn = "Destroy" /\ calls[1].args[1] = 1
    /\ Len(ObjList) = 3

(***************************************************************************)
(* C3: ObjDict and ObjList always agree (same keys, ObjDict[key] is the    *)
(* position of key in ObjList), and the keys in ascending column order are *)
(* the live keys in the order they were added.                             *)
(***************************************************************************)
C3_RegistryAgrees ==
    /\ Live = Range(ObjList)
    /\ Len(ObjList) = Cardinality(Live)
    /\ \A i \in 1..Len(ObjList) : ObjDict[ObjList[i]] = i - 1
    /\ ObjList = addOrder

\* after a removal, three live keys stand in an order that is not the
\* order of their values
C3_Witness ==
    /\ RemovalOf(op) # {} /\ calls # <<>>
    /\ ObjList = <<(<<9, 2>>), (<<11, 1>>), (<<8, 0>>)>>

C5_SosSeqIsCyan ==
    \A i \in DrawingCalls :
        (op.name = "Parse" /\ HdrPri(op.arg[1]) = HDR_PRI_SOS + HDR_PRI_SEQ)
            => CallColor(calls[i]) = MSC_COLOR_CYN

(***************************************************************************)
(* C6: Parse draws priority 1 in Cyan, 2 in Blue, 4 in Red and every other *)
(* value of the 3-bit field (0 and the multi-bit values) without color.    *)
(***************************************************************************)
C6_ColorTable ==
    \A i \in DrawingCalls :
        op.name = "Parse" =>
            LET ucPri == HdrPri(op.arg[1])
            IN  CallColor(calls[i]) =
                    CASE ucPri = 1 -> 6
                      [] ucPri = 2 -> 4
                      [] ucPri = 4 -> 1
                      [] OTHER -> 0

\* a message of priority 7 has just been drawn
C6_Witness ==
    /\ IsParseOf(op, HDR_TYPE_MSG) /\ HdrPri(op.arg[1]) = 7
    /\ DrawingCalls # {}

(***************************************************************************)
(* C7: Parse of a Destroy packet whose key is not registered reports       *)
(* "unknown src:", calls nothing on the display, writes nothing, leaves    *)
(* the registry and the pagination counter as they were, and the packet    *)
(* that follows is processed as usual.                                     *)
(***************************************************************************)
C7_DestroyUnknown ==
    [][/\ (IsParseOf(op', HDR_TYPE_DES) /\ Slice(op'.arg, 2, 4) \notin Live) =>
            /\ report' = <<[text |-> "unknown src:", src |-> Slice(op'.arg, 2, 4)]>>
            /\ calls' = <<>>
            /\ out' = <<>>
            /\ msc' = msc
            /\ ret' = "None"
       /\ (report # <<>> /\ op'.name = "Parse"
              /\ HdrOpc(op'.arg[1]) \in {HDR_TYPE_MSG, HDR_TYPE_EVT, HDR_TYPE_STA}) =>
            /\ report' = <<>>
            /\ calls'[Len(calls')].fn \in {"Message", "Event", "State"}
            /\ Slice(op'.arg, 2, 4) \in DOMAIN msc'.objDict]_vars

\* a Destroy of an unknown key has just been parsed while other objects
\* are registered and a page is under way
C7_Witness ==
    /\ IsParseOf(op, HDR_TYPE_DES)
    /\ report # <<>> /\ calls = <<>>
    /\ Len(ObjList) >= 1 /\ msc.disp.lines >= 1

(***************************************************************************)
(* C8: a key that is not in the registry is given column n, the number of  *)
(* live objects at that moment, when it is added.  After columns {0,1,2}   *)
(* exist and the object at column 1 is destroyed, the next key added gets  *)
(* column 2 and a message from the former column-2 object to it is drawn   *)
(* with dist = 1.                                                          *)
(***************************************************************************)
C8_SceneHolds ==
    Len(scene) = 2 =>
        /\ ObjDict[scene[1]] = 1
        /\ ObjDict[scene[2]] = 2
        /\ (IsParseOf(op, HDR_TYPE_MSG)
              /\ Slice(op.arg, 2, 4) = scene[1] /\ Slice(op.arg, 4, 6) = scene[2]) =>
                LET c == calls[Len(calls)]
                IN  c.fn = "Message" /\ c.args[2] - c.args[1] = 1

C8_NewKeyGetsNextColumn ==
    [][/\ LET new == FirstSeen(AdditionsOf(op'), Live)
              n == Cardinality(Live)
          IN  \A i \in 1..Len(new) : ObjDict'[new[i]] = n + i - 1
       /\ C8_SceneHolds']_vars

\* the scenario has run to its end: column 1 of three was destroyed, a key
\* was added next, and a message from the former column-2 object to the
\* added one has just been drawn
C8_Witness ==
    /\ Len(scene) = 2
    /\ IsParseOf(op, HDR_TYPE_MSG)
    /\ Slice(op.arg, 2, 4) = scene[1] /\ Slice(op.arg, 4, 6) = scene[2]
    /\ Len(ObjList) = 3
    /\ calls[Len(calls)].fn = "Message"

(***************************************************************************)
(* C9: with modules 0 and 1 registered as ModA and ModB and no object      *)
(* registered, Parse of MSG(priority 0, src = module 0 instance 8,         *)
(* dst = module 1 instance 10) creates src at column 0 and dst at column   *)
(* 1, hands the display the labels "8:ModA", "a:ModB" and calls            *)
(* Message(0, 1, text, None).  The source of a message is always           *)
(* registered before its destination.                                      *)
(***************************************************************************)
C9_Pkt == BuildPkt(0, HDR_TYPE_MSG, U32(0, 0), 0, 8, 1, 10)

C9_LazyCreate ==
    [][/\ (op'.name = "Parse" /\ op'.arg = C9_Pkt /\ ObjList = <<>>
              /\ msc.modDict = (0 :> "ModA" @@ 1 :> "ModB")) =>
            /\ msc'.objList = <<(<<8, 0>>), (<<10, 1>>)>>
            /\ msc'.objDict = (<<8, 0>> :> 0 @@ <<10, 1>> :> 1)
            /\ msc'.disp.objList = <<"8:ModA", "a:ModB">>
            /\ calls' = <<Call("SetObjList", <<(<<"8:ModA", "a:ModB">>)>>),
                          Call("Banner", <<FALSE>>),
                          Call("Message", <<0, 1, MsgText(msc.msgDict, 0),
                                            MSC_COLOR_NONE>>)>>
       /\ IsParseOf(op', HDR_TYPE_MSG) =>
            LET src == Slice(op'.arg, 2, 4)
                dst == Slice(op'.arg, 4, 6)
            IN  (src \notin Live /\ dst \notin Live /\ src # dst) =>
                    msc'.objDict[src] < msc'.objDict[dst]]_vars

\* the packet has just been parsed by an MSC that held no object
C9_Witness ==
    /\ op.name = "Parse" /\ op.arg = C9_Pkt
    /\ ObjList = <<(<<8, 0>>), (<<10, 1>>)>>
    /\ Len(calls) = 3 /\ calls[1].fn = "SetObjList"
    /\ msc.disp.lines = 2

(***************************************************************************)
(* C10: for the opcodes MSG, EVT, STA, TP and DES the fields Parse         *)
(* extracts from the packet BuildPkt produced (opcode, priority, source    *)
(* key, destination key, message / state id or test point value) are the   *)
(* fields given to BuildPkt.                                               *)
(***************************************************************************)
C10_RoundTrip ==
    op.name = "ParseFields" =>
        LET a == built.args
        IN  /\ parsed.ucOpc = a.ucOpc
            /\ parsed.ucPri = a.ucPri
            /\ parsed.src = <<a.srcId, a.srcMod>>
            /\ a.ucOpc = HDR_TYPE_MSG => parsed.dst = <<a.dstId, a.dstMod>>
            /\ a.ucOpc # HDR_TYPE_DES => parsed.msg = a.msgId

\* a test point packet with every field at the top of its range has been
\* built and decoded
C10_Witness ==
    /\ op.name = "ParseFields"
    /\ built.args.ucOpc = HDR_TYPE_TP /\ built.args.ucPri = 7
    /\ built.args.msgId = U32(65535, 65535)
    /\ built.args.srcId = 255 /\ built.args.srcMod = 255
    /\ Len(built.pkt) = 8

(***************************************************************************)
(* C11: Banner(isRequired) writes the banner exactly when, at call time,   *)
(* lines % linesPerPage = 0 or isRequired holds; when it writes it counts  *)
(* from 0 again, and it adds 1 to the counter on every call.  So a fresh   *)
(* display that receives Banner(False) calls only writes the banner on the *)
(* calls numbered 0, N, 2N, ... (N = linesPerPage) and on no other.        *)
(***************************************************************************)
C11_BannerRule ==
    [][op'.name = "Banner" =>
          LET d == msc.disp
              emit == (d.lines % d.linesPerPage = 0) \/ op'.arg
          IN  /\ out' = IF emit THEN <<BannerLine(d)>> ELSE <<>>
              /\ msc'.disp.lines = (IF emit THEN 0 ELSE d.lines) + 1
              /\ bannerCalls'.pure =>
                    (out' # <<>> <=> bannerCalls.n % d.linesPerPage = 0)]_vars

\* the call numbered 2N of a run of Banner(False) calls, N = 2, has written
\* the banner
C11_Witness ==
    /\ op.name = "Banner" /\ bannerCalls.pure
    /\ msc.disp.linesPerPage = 2 /\ bannerCalls.n = 5
    /\ out # <<>>

(***************************************************************************)
(* C12: for every Message, Event, State and TestPoint packet Parse first   *)
(* registers the keys the packet refers to (SetObjList is called when one  *)
(* is new), then calls Banner(False), then calls the one drawing operation *)
(* of the packet with the columns the registry holds after registration.   *)
(***************************************************************************)
C12_RegisterBannerDraw ==
    [][(op'.name = "Parse" /\ HdrOpc(op'.arg[1]) \in
            {HDR_TYPE_MSG, HDR_TYPE_EVT, HDR_TYPE_STA, HDR_TYPE_TP}) =>
          LET ucOpc == HdrOpc(op'.arg[1])
              src == Slice(op'.arg, 2, 4)
              dst == Slice(op'.arg, 4, 6)
              refs == IF ucOpc = HDR_TYPE_MSG THEN <<src, dst>> ELSE <<src>>
              fn == CASE ucOpc = HDR_TYPE_MSG -> "Message"
                      [] ucOpc = HDR_TYPE_EVT -> "Event"
                      [] ucOpc = HDR_TYPE_STA -> "State"
                      [] ucOpc = HDR_TYPE_TP -> "TestPt"
              n == Len(calls')
          IN  /\ Range(refs) \subseteq DOMAIN msc'.objDict
              /\ n = IF FirstSeen(refs, Live) # <<>> THEN 3 ELSE 2
              /\ n = 3 => calls'[1].fn = "SetObjList"
              /\ calls'[n - 1] = Call("Banner", <<FALSE>>)
              /\ calls'[n].fn = fn
              /\ calls'[n].args[1] = msc'.objDict[src]
              /\ ucOpc = HDR_TYPE_MSG =>
                    calls'[n].args[2] = msc'.objDict[dst]]_vars

(***************************************************************************)
(* C13: for a Destroy packet whose key is registered Parse calls Destroy   *)
(* with the column the key has before the removal, then removes the key    *)
(* (the display is handed the label list without it), then calls           *)
(* Banner(False); after the call the key is not in the registry.           *)
(***************************************************************************)
C13_DestroyThenRemove ==
    [][(IsParseOf(op', HDR_TYPE_DES) /\ Slice(op'.arg, 2, 4) \in Live) =>
          LET key == Slice(op'.arg, 2, 4)
              rest == Without(ObjList, {key})
          IN  /\ Len(calls') = 3
              /\ calls'[1].fn = "Destroy"
              /\ calls'[1].args[1] = ObjDict[key]
              /\ calls'[2] = Call("SetObjList", <<Labels(msc.modDict, rest)>>)
              /\ calls'[3] = Call("Banner", <<FALSE>>)
              /\ out'[1] = DispDestroy(msc.disp, ObjDict[key], CallColor(calls'[1]))
              /\ key \notin DOMAIN msc'.objDict
              /\ msc'.objList = rest]_vars

\* the first of two objects has been destroyed: its row shows two life
\* lines, the header after it one
C13_Witness ==
    /\ IsParseOf(op, HDR_TYPE_DES)
    /\ Len(calls) = 3 /\ calls[1].args[1] = 0
    /\ Len(out[1].tiles) = 2 /\ Len(ObjList) = 1

(***************************************************************************)
(* C14: a TestPoint packet whose key is not registered never creates the   *)
(* object: the registry, the object list of the display and its line       *)
(* counter stay as they are, no operation of the display is called, and    *)
(* "unknown src" is reported while Parse returns normally.                 *)
(***************************************************************************)
C14_TestPtUnknown ==
    [][(IsParseOf(op', HDR_TYPE_TP) /\ Slice(op'.arg, 2, 4) \notin Live) =>
          /\ msc' = msc
          /\ calls' = <<>> /\ out' = <<>>
          /\ report' = UnknownSrc(Slice(op'.arg, 2, 4))
          /\ ret' = "None"]_vars

\* a test point of an unknown object has arrived while two others live
C14_Witness ==
    /\ IsParseOf(op, HDR_TYPE_TP)
    /\ report # <<>> /\ calls = <<>>
    /\ Len(ObjList) = 2

(***************************************************************************)
(* C18: every SetObjList call writes the header built from the new label   *)
(* list, whatever the line counter is, and leaves the counter at 1; so a   *)
(* row drawn for the new object set comes after the header that lists      *)
(* that set.                                                               *)
(***************************************************************************)
C18_HeaderOnSetObjList ==
    [][\A i \in 1..Len(calls') : calls'[i].fn = "SetObjList" =>
          LET labels == calls'[i].args[1]
              header == [kind |-> "banner", text |-> BannerText(labels)]
              before == Cardinality({j \in 1..(i - 1) : calls'[j].fn \in DrawingFns})
              h == before + 1
          IN  /\ msc'.disp.objList = labels
              /\ Len(out') >= h /\ out'[h] = header
              /\ \A j \in 1..Len(out') :
                    (out'[j].kind # "banner" /\ Len(out'[j].tiles) = Len(labels)
                        /\ Len(labels) # Len(msc.disp.objList)) => j > h
              /\ i = Len(calls') => msc'.disp.lines = 1]_vars

\* AddObj has declared a second object when the page was not full: the
\* header is written all the same
C18_Witness ==
    /\ op.name = "AddObj" /\ Len(calls) = 1
    /\ Len(msc.disp.objList) = 2
    /\ msc.disp.lines = 1 /\ out # <<>>

(***************************************************************************)
(* C20: for columns a, b below objCnt Message(a, b) writes min(a,b) blank  *)
(* tiles, then the arrow (the self tile if a = b; else a start tile,       *)
(* |b-a|-1 through tiles and an arrowhead tile, flowing right if b > a and *)
(* left if b < a), then objCnt-1-max(a,b) blank tiles: the row has objCnt  *)
(* tiles and the end tiles of the arrow stand at columns a and b.          *)
(***************************************************************************)
C20_MessageRow ==
    op.name = "Message" =>
        LET a == op.arg[1]
            b == op.arg[2]
            lo == Min(a, b)
            hi == IF a > b THEN a ELSE b
            t == out[1].tiles
        IN  /\ Len(t) = msc.disp.objCnt
            /\ \A i \in 1..lo : t[i] = "CEN"
            /\ \A i \in (hi + 2)..Len(t) : t[i] = "CEN"
            /\ \A i \in (lo + 2)..hi : t[i] = "THR"
            /\ a = b => t[a + 1] = "SLF"
            /\ b > a => t[a + 1] = "RTE" /\ t[b + 1] = "RTA"
            /\ b < a => t[a + 1] = "LFE" /\ t[b + 1] = "LFA"

\* a message from the last of four life lines to the first
C20_Witness ==
    /\ op.name = "Message" /\ op.arg = <<3, 0>>
    /\ msc.disp.objCnt = 4
    /\ out[1].tiles = <<"LFA", "THR", "THR", "LFE">>

(***************************************************************************)
(* C15: a buffer shorter than the payload of its opcode makes Parse fail   *)
(* with an error and leaves the registry, the object list of the display   *)
(* and its line counter as they were: no object is registered and no       *)
(* banner or row is written.                                               *)
(***************************************************************************)
C15_TruncatedRejected ==
    [][(op'.name = "Parse" /\ IsTruncated(op'.arg)) =>
          /\ ret' # "None"
          /\ msc' = msc
          /\ out' = <<>>]_vars

(***************************************************************************)
(* C16: a packet whose opcode is none of 0..5 makes Parse report an error  *)
(* to its caller, and changes neither the registry nor the display.        *)
(***************************************************************************)
C16_UnknownOpcodeReported ==
    [][(op'.name = "Parse" /\ HdrOpc(op'.arg[1]) \notin HDR_TYPE_MSG..HDR_TYPE_ACK) =>
          /\ ret' # "None" \/ report' # <<>>
          /\ msc' = msc]_vars

(***************************************************************************)
(* C17: after every AddObj, DelObj or Parse call that has completed the    *)
(* object list of the display is as long as the registry and its i-th      *)
(* label is the label of the key at column i.                              *)
(***************************************************************************)
C17_DisplayFollowsRegistry ==
    (op.name \in {"AddObj", "DelObj", "Parse"} /\ ret \in {"None", "True", "False"}) =>
        /\ Len(msc.disp.objList) = Len(ObjList)
        /\ ~LabelsRaise(ObjList)
        /\ msc.disp.objList = Labels(msc.modDict, ObjList)

(***************************************************************************)
(* C19: every display (terminal, PlantUML, mscgen, web sequence diagram)   *)
(* accepts every color code 0..7 in every drawing operation without        *)
(* raising an error.                                                       *)
(***************************************************************************)
C19_EveryColorAccepted ==
    op.name = "Draw" => ret = "None"

(***************************************************************************)
(* C23: BuildPkt puts the opcode, masked to 5 bits, in bits 0..4 of the    *)
(* header and the priority, masked to 3 bits, in bits 5..7, so the header  *)
(* is in 0..255; Parse takes opcode = header & 0x1F and priority =         *)
(* (header >> 5) & 7, and for every opcode in 0..31 and priority in 0..7   *)
(* the pair it takes is the pair that was encoded.                         *)
(***************************************************************************)
C23_HeaderByte ==
    op.name \in {"BuildHdr", "ParseHdr"} =>
        LET hdr == built.pkt[1]
            a == built.args
        IN  /\ hdr \in 0..255
            /\ hdr % 32 = a.ucOpc % 32
            /\ hdr \div 32 = a.ucPri % 8
            /\ op.name = "ParseHdr" =>
                  /\ parsed.ucOpc = hdr % 32
                  /\ parsed.ucPri = (hdr \div 32) % 8
                  /\ (a.ucOpc \in 0..31 /\ a.ucPri \in 0..7) =>
                        (parsed.ucOpc = a.ucOpc /\ parsed.ucPri = a.ucPri)

\* the largest opcode and the largest priority have been encoded in the
\* header 255 and decoded
C23_Witness ==
    /\ op.name = "ParseHdr"
    /\ built.args.ucOpc = 31 /\ built.args.ucPri = 7
    /\ built.pkt = <<255>>
    /\ parsed.ucOpc = 31 /\ parsed.ucPri = 7

(***************************************************************************)
(* C21: with a DispMscgen a change of the object list brings a new header: *)
(* every object named in a written message, event, state or note line has  *)
(* been listed in an entity declaration written after the object entered   *)
(* the object list and before the line that names it.                      *)
(***************************************************************************)
C21_NamedAfterListed ==
    [][op'.name = "Parse" =>
          \A j \in 1..Len(out') : out'[j].kind # "entities" =>
              LET heads == {i \in 1..(j - 1) : out'[i].kind = "entities"}
                  known == IF heads = {}
                           THEN listed \cap Range(msc'.disp.objList)
                           ELSE UNION {Range(out'[i].names) : i \in heads}
              IN  Range(out'[j].names) \subseteq known]_vars

(***************************************************************************)
(* C22: Create(a, b) lays out its row like Message(a, b): for all columns  *)
(* a, b below objCnt, b <= a included, the row has exactly objCnt tiles,   *)
(* min(a,b) blank tiles first, then an arrow of |b-a|+1 tiles, then        *)
(* objCnt-1-max(a,b) blank tiles.                                          *)
(***************************************************************************)
C22_CreateRow ==
    op.name = "Create" =>
        LET a == op.arg[1]
            b == op.arg[2]
            lo == Min(a, b)
            hi == IF a > b THEN a ELSE b
            t == out[1].tiles
        IN  /\ Len(t) = msc.disp.objCnt
            /\ \A i \in 1..lo : t[i] = "CEN"
            /\ \A i \in (lo + 1)..(hi + 1) : t[i] # "CEN"
            /\ \A i \in (hi + 2)..Len(t) : t[i] = "CEN"

(***************************************************************************)
(* C25: for linesPerPage >= 1 the line counter of the display is within    *)
(* 0..linesPerPage in every reachable state and within 1..linesPerPage     *)
(* after a Banner or SetObjList call; so of any linesPerPage consecutive   *)
(* Banner calls at least one writes the banner.                            *)
(***************************************************************************)
C25_CounterInPage ==
    LET d == msc.disp
    IN  /\ d.lines \in 0..d.linesPerPage
        /\ op.name \in {"Banner", "SetObjList"} => d.lines \in 1..d.linesPerPage
        /\ bannerCalls.dry < d.linesPerPage

\* on a page of two lines the second Banner call in a row has written
\* nothing and has filled the page
C25_Witness ==
    /\ op.name = "Banner" /\ out = <<>>
    /\ msc.disp.linesPerPage = 2 /\ msc.disp.lines = 2
    /\ bannerCalls.dry = 1

(***************************************************************************)
(* C24: every column Parse hands to a drawing operation of the display     *)
(* (Message, Event, State, TestPt, Destroy) is within 0..objCnt-1 of the   *)
(* object list the display holds at the moment of the call, after any      *)
(* sequence of packets.  Destroy is called before the key is removed, the  *)
(* other operations after the keys have been registered.                   *)
(***************************************************************************)
C24_ColumnsOnDisplay ==
    [][op'.name = "Parse" =>
          \A i \in 1..Len(calls') :
              LET c == calls'[i]
              IN  /\ c.fn = "Destroy" =>
                        c.args[1] \in 0..(msc.disp.objCnt - 1)
                  /\ c.fn \in {"Event", "State", "TestPt"} =>
                        c.args[1] \in 0..(msc'.disp.objCnt - 1)
                  /\ c.fn = "Message" =>
                        /\ c.args[1] \in 0..(msc'.disp.objCnt - 1)
                        /\ c.args[2] \in 0..(msc'.disp.objCnt - 1)]_vars

(***************************************************************************)
(* C26: with linesPerPage >= 2 one Parse call writes the banner at most    *)
(* once: when the packet changes the object list the header SetObjList     *)
(* writes is the only one, and the Banner(False) call that follows it in   *)
(* the same Parse writes nothing.                                          *)
(***************************************************************************)
C26_OneBannerPerPacket ==
    [][(op'.name = "Parse" /\ msc.disp.linesPerPage >= 2) =>
          LET banners == {j \in 1..Len(out') : out'[j].kind = "banner"}
          IN  /\ Cardinality(banners) <= 1
              /\ (\E i \in 1..Len(calls') : calls'[i].fn = "SetObjList") =>
                    /\ Cardinality(banners) = 1
                    /\ msc'.disp.lines =
                          1 + Cardinality({i \in 1..Len(calls') :
                                              calls'[i].fn = "Banner"})]_vars

\* a packet has added the third object: the header of SetObjList is
\* written, the Banner call after it writes nothing, the row follows
C26_Witness ==
    /\ op.name = "Parse" /\ Len(calls) = 3
    /\ calls[1].fn = "SetObjList" /\ calls[2].fn = "Banner"
    /\ repeats = "no" /\ Len(ObjList) = 3
    /\ Len(out) = 2 /\ out[1].kind = "banner" /\ out[2].kind # "banner"

====
